---- MODULE Spec2Model ----
(***************************************************************************)
(* EcoAudit: utility usage scoring (app.py: assess_usage_with_ai,          *)
(* calculate_ai_points, the usage tracker page) and the shared EcoAI       *)
(* instance (simple_ai_models.py).                                         *)
(*                                                                         *)
(* Numbers.  The code computes in binary floating point.  The model uses   *)
(* exact decimal arithmetic on scaled integers:                            *)
(*   - base scores and point results are in hundredths of a point,         *)
(*   - modifiers are in hundredths, products in 1/10000 of a point,        *)
(*   - an efficiency score is an exact fraction <<num, den>>,              *)
(*   - round(x, n) is modelled as rounding to nearest with ties to even,   *)
(*     the documented behaviour of Python's round.  On an exact decimal    *)
(*     tie the float operand may lie one ulp off the tie, so the code's    *)
(*     result can differ from the model's by one unit in the last place;   *)
(*     no property below depends on the direction of a tie.                *)
(***************************************************************************)
EXTENDS Integers, Sequences, FiniteSets, TLC

VARIABLES
    is_trained,         \* EcoAI._is_trained of the shared eco_ai instance
    model_performance,  \* EcoAI.model_performance (training_samples, last_training)
    db_usage,           \* the utility usage records of the database, oldest first
    call,               \* the call being made on the scoring functions: its arguments
    ret,                \* what the last call returned
    prev,               \* the call before it and what it returned
    sessions,           \* per browser session: st.session_state and the script run
    db_users,           \* the environmental_class of each user's row in the database
    conversation_context, \* UltraSmartChatbot.conversation_context of ultra_smart_chatbot
    clicks              \* the number of button clicks so far

vars == <<is_trained, model_performance, db_usage, call, ret, prev, sessions, db_users,
          conversation_context, clicks>>

None == "None"

\* an optional value (Python's None or an object): <<>> or <<x>>
NoUser == <<>>
NoCall == [fn |-> "none"]

\* conversation_context after UltraSmartChatbot.__init__
InitialContext ==
    [conversation_history |-> <<>>, current_topic |-> None, expertise_level |-> "beginner"]

----------------------------------------------------------------------------
(* Bounds of the model *)

MaxHousehold == 7
MaxFeatures == 14
MaxHistory == 2
MaxClicks == 3
MaxWindow == 3
MaxMessages == 3

----------------------------------------------------------------------------
(* Arithmetic helpers *)

Min(a, b) == IF a <= b THEN a ELSE b
Max(a, b) == IF a >= b THEN a ELSE b

\* floor(n / d) for d > 0 and any integer n
FloorDiv(n, d) == IF n >= 0 THEN n \div d ELSE -((-n + d - 1) \div d)

\* round(n / d) to the nearest integer, ties to even (d > 0)
RoundDiv(n, d) ==
    LET q == FloorDiv(n, d)
        r == n - q * d
    IN  IF 2 * r > d THEN q + 1
        ELSE IF 2 * r < d THEN q
        ELSE IF q % 2 = 0 THEN q ELSE q + 1

----------------------------------------------------------------------------
(* calculate_ai_points, app.py:386-466 *)

StatusLabel == {"Excellent", "Very Good", "Good", "Above Normal", "Normal",
                "Below Normal", "High", "Very High", "Critical", "Emergency", "Low"}

\* in hundredths of a point
status_base_scores ==
    [l \in StatusLabel |->
        CASE l = "Excellent"    -> 333
          [] l = "Very Good"    -> 280
          [] l = "Good"         -> 230
          [] l = "Above Normal" -> 180
          [] l = "Normal"       -> 150
          [] l = "Below Normal" -> 80
          [] l = "High"         -> 50
          [] l = "Very High"    -> 20
          [] l = "Critical"     -> -50
          [] l = "Emergency"    -> -100
          [] l = "Low"          -> 60]

\* a table lookup that scores an unknown label 0
base_points_UnknownZero(status) ==
    IF status \in DOMAIN status_base_scores THEN status_base_scores[status] ELSE 0

\* status_base_scores.get(status, 1.50)
base_points(status) ==
    IF status \in DOMAIN status_base_scores THEN status_base_scores[status] ELSE 150

total_utility_points(ws, es, gs) == base_points(ws) + base_points(es) + base_points(gs)

\* efficiency_score >= t, for the fraction eff = <<num, den>>
EffGeq(eff, t) == eff[1] >= t * eff[2]

\* a modifier without the bonus tier for scores of 95 and more
efficiency_modifier_NoBonusTier(eff) ==
    IF EffGeq(eff, 90) THEN 100
    ELSE IF EffGeq(eff, 85) THEN 95
    ELSE IF EffGeq(eff, 80) THEN 90
    ELSE IF EffGeq(eff, 70) THEN 85
    ELSE IF EffGeq(eff, 60) THEN 80
    ELSE IF EffGeq(eff, 50) THEN 70
    ELSE IF EffGeq(eff, 40) THEN 60
    ELSE IF EffGeq(eff, 30) THEN 50
    ELSE IF EffGeq(eff, 20) THEN 40
    ELSE 30

\* in hundredths
efficiency_modifier(eff) ==
    IF EffGeq(eff, 95) THEN 110
    ELSE IF EffGeq(eff, 90) THEN 100
    ELSE IF EffGeq(eff, 85) THEN 95
    ELSE IF EffGeq(eff, 80) THEN 90
    ELSE IF EffGeq(eff, 70) THEN 85
    ELSE IF EffGeq(eff, 60) THEN 80
    ELSE IF EffGeq(eff, 50) THEN 70
    ELSE IF EffGeq(eff, 40) THEN 60
    ELSE IF EffGeq(eff, 30) THEN 50
    ELSE IF EffGeq(eff, 20) THEN 40
    ELSE 30

\* A user is NoUser (None) or <<[id, household_size, energy_features]>>; energy_features is
\* [kind |-> "absent"] (None or ""), [kind |-> "malformed"] (json.loads or len
\* raises) or [kind |-> "list", count |-> n] (a JSON list of n tags).
Absent == [kind |-> "absent", count |-> 0]
Malformed == [kind |-> "malformed", count |-> 0]
FeatureList(n) == [kind |-> "list", count |-> n]

\* a bonus per household member, the first one included
household_bonus_PerMember(user) ==
    IF user = NoUser THEN 0
    ELSE IF user[1].household_size > 1
         THEN Min(500 * user[1].household_size, 3000)
         ELSE 0

\* in 1/10000 of a point
household_bonus(user) ==
    IF user = NoUser THEN 0
    ELSE IF user[1].household_size > 1
         THEN Min(500 * (user[1].household_size - 1), 3000)
         ELSE 0

\* a try block around the whole context adjustment: a payload that does not
\* parse loses the household bonus too
features_bonus_ErrorDropsContext(user) ==
    IF user = NoUser THEN 0
    ELSE IF user[1].energy_features.kind = "list"
         THEN Min(300 * user[1].energy_features.count, 4000)
         ELSE IF user[1].energy_features.kind = "malformed"
              THEN 0 - household_bonus(user)
              ELSE 0

\* in 1/10000 of a point
features_bonus(user) ==
    IF user = NoUser THEN 0
    ELSE IF user[1].energy_features.kind = "list"
         THEN Min(300 * user[1].energy_features.count, 4000)
         ELSE 0

context_bonus(user) == household_bonus(user) + features_bonus(user)

\* a clamp that forgets the upper limit
clamp_points_NoUpper(p) == Max(-50000, p)

\* final_points before rounding, in 1/10000 of a point
clamp_points(p) == Min(100000, Max(-50000, p))

\* the result, in hundredths of a point
calculate_ai_points(ws, es, gs, eff, user) ==
    LET modified_points == total_utility_points(ws, es, gs) * efficiency_modifier(eff)
        final_points == clamp_points(modified_points + context_bonus(user))
    IN  RoundDiv(final_points, 100)

----------------------------------------------------------------------------
(* EcoAI, simple_ai_models.py *)

efficiency_thresholds ==
    [water       |-> [low |-> 50,  moderate |-> 100, high |-> 150],
     electricity |-> [low |-> 300, moderate |-> 600, high |-> 900],
     gas         |-> [low |-> 50,  moderate |-> 100, high |-> 150]]

_get_usage_status(utility, value) ==
    LET thresholds == efficiency_thresholds[utility]
    IN  IF value <= thresholds.low THEN "excellent"
        ELSE IF value <= thresholds.moderate THEN "good"
        ELSE IF value <= thresholds.high THEN "moderate"
        ELSE "high"

\* analyze_usage keeps only the three statuses here
assess_usage_with_context(water_gallons, electricity_kwh, gas_cubic_m) ==
    <<_get_usage_status("water", water_gallons),
      _get_usage_status("electricity", electricity_kwh),
      _get_usage_status("gas", gas_cubic_m)>>

\* a record efficiency without the floor of 0
record_efficiency_NoFloor(record) ==
    LET water == record.water_gallons
        electricity == record.electricity_kwh
        gas == record.gas_cubic_m
        water_eff == IF water <= 50 THEN 1000 ELSE 1000 - (water - 50) * 5
        elec_eff == IF electricity <= 300 THEN 1000 ELSE 1000 - (electricity - 300)
        gas_eff == IF gas <= 50 THEN 1000 ELSE 1000 - (gas - 50) * 10
    IN  water_eff + elec_eff + gas_eff

\* the efficiency of one historical record, summed over its three utilities,
\* in tenths of a percent: 100 - (water - 50) * 0.5, 100 - (electricity - 300)
\* * 0.1 and 100 - (gas - 50) * 1.0, each at least 0 and 100 up to the knee
record_efficiency(record) ==
    LET water == record.water_gallons
        electricity == record.electricity_kwh
        gas == record.gas_cubic_m
        water_eff == IF water <= 50 THEN 1000 ELSE Max(0, 1000 - (water - 50) * 5)
        elec_eff == IF electricity <= 300 THEN 1000 ELSE Max(0, 1000 - (electricity - 300))
        gas_eff == IF gas <= 50 THEN 1000 ELSE Max(0, 1000 - (gas - 50) * 10)
    IN  water_eff + elec_eff + gas_eff

RECURSIVE total_efficiency(_)
total_efficiency(data) ==
    IF data = <<>> THEN 0
    ELSE record_efficiency(Head(data)) + total_efficiency(Tail(data))

\* an analysis that answers the baseline of 50 for every history
analyze_usage_patterns_Baseline(data_for_analysis) == <<50, 1>>

\* the efficiency_score of analyze_usage_patterns, as a fraction <<num, den>>
analyze_usage_patterns(data_for_analysis) ==
    IF data_for_analysis = <<>> THEN <<50, 1>>
    ELSE <<total_efficiency(data_for_analysis), 30 * Len(data_for_analysis)>>

\* train_models: the new <<is_trained, model_performance, success>>
\* a training that resets the flag when it gets no data
train_models_ResetsOnEmpty(data_for_training, trained, performance) ==
    IF data_for_training = <<>>
    THEN <<FALSE, performance, FALSE, <<"No training data provided">> >>
    ELSE <<TRUE,
           [training_samples |-> Len(data_for_training), last_training |-> "Recently trained"],
           TRUE, <<"Models trained successfully with", Len(data_for_training), "samples">> >>

\* a training that records the run before it looks at the data
train_models_CountsEmpty(data_for_training, trained, performance) ==
    IF data_for_training = <<>>
    THEN <<trained, [training_samples |-> 0, last_training |-> "Recently trained"],
           FALSE, <<"No training data provided">> >>
    ELSE <<TRUE,
           [training_samples |-> Len(data_for_training), last_training |-> "Recently trained"],
           TRUE, <<"Models trained successfully with", Len(data_for_training), "samples">> >>

\* train_models: the new <<is_trained, model_performance, success, message>>;
\* None and [] are both falsy and reach it as <<>>
train_models(data_for_training, trained, performance) ==
    IF data_for_training = <<>>
    THEN <<trained, performance, FALSE, <<"No training data provided">> >>
    ELSE <<TRUE,
           [training_samples |-> Len(data_for_training), last_training |-> "Recently trained"],
           TRUE, <<"Models trained successfully with", Len(data_for_training), "samples">> >>

\* latest_data.get(key, default)
Get(latest_data, key, default) ==
    IF key \in DOMAIN latest_data THEN latest_data[key] ELSE default

NoPrediction == <<>>

\* a prediction that does not look at the flag
predict_usage_Untrained(latest_data, trained, variation, anomaly_probability) ==
    <<[water_prediction |-> Get(latest_data, "water_gallons", 100) * variation,
       electricity_prediction |-> Get(latest_data, "electricity_kwh", 500) * variation,
       gas_prediction |-> Get(latest_data, "gas_cubic_m", 80) * variation,
       anomaly_probability |-> anomaly_probability]>>

\* predict_usage: None (NoPrediction) or <<predictions>>, in hundredths, for a
\* variation and an anomaly_probability in percent
predict_usage(latest_data, trained, variation, anomaly_probability) ==
    IF ~trained THEN NoPrediction
    ELSE <<[water_prediction |-> Get(latest_data, "water_gallons", 100) * variation,
            electricity_prediction |-> Get(latest_data, "electricity_kwh", 500) * variation,
            gas_prediction |-> Get(latest_data, "gas_cubic_m", 80) * variation,
            anomaly_probability |-> anomaly_probability]>>

----------------------------------------------------------------------------
(* assess_usage_with_ai, app.py:229-382 *)

\* a tier table whose last tier scores 0
water_efficiency_LastTierZero(water_gallons) ==
    IF water_gallons <= 3000 THEN 100
    ELSE IF water_gallons <= 5000 THEN 85
    ELSE IF water_gallons <= 8000 THEN 70
    ELSE IF water_gallons <= 12000 THEN 55
    ELSE IF water_gallons <= 15000 THEN 40
    ELSE IF water_gallons <= 20000 THEN 25
    ELSE 0

water_efficiency(water_gallons) ==
    IF water_gallons <= 3000 THEN 100
    ELSE IF water_gallons <= 5000 THEN 85
    ELSE IF water_gallons <= 8000 THEN 70
    ELSE IF water_gallons <= 12000 THEN 55
    ELSE IF water_gallons <= 15000 THEN 40
    ELSE IF water_gallons <= 20000 THEN 25
    ELSE 10

\* a tier table whose breakpoints belong to the tier above
electricity_efficiency_Exclusive(electricity_kwh) ==
    IF electricity_kwh < 300 THEN 100
    ELSE IF electricity_kwh < 500 THEN 85
    ELSE IF electricity_kwh < 800 THEN 70
    ELSE IF electricity_kwh < 1200 THEN 55
    ELSE IF electricity_kwh < 1600 THEN 40
    ELSE IF electricity_kwh < 2000 THEN 25
    ELSE 10

electricity_efficiency(electricity_kwh) ==
    IF electricity_kwh <= 300 THEN 100
    ELSE IF electricity_kwh <= 500 THEN 85
    ELSE IF electricity_kwh <= 800 THEN 70
    ELSE IF electricity_kwh <= 1200 THEN 55
    ELSE IF electricity_kwh <= 1600 THEN 40
    ELSE IF electricity_kwh <= 2000 THEN 25
    ELSE 10

gas_efficiency(gas_cubic_m) ==
    IF gas_cubic_m <= 50 THEN 100
    ELSE IF gas_cubic_m <= 80 THEN 85
    ELSE IF gas_cubic_m <= 120 THEN 70
    ELSE IF gas_cubic_m <= 180 THEN 55
    ELSE IF gas_cubic_m <= 250 THEN 40
    ELSE IF gas_cubic_m <= 350 THEN 25
    ELSE 10

\* a validation that penalizes nothing
zero_penalty_Never(value) == 1

\* the penalty factor of one utility: 0 or 1
zero_penalty(value) == IF value = 0 THEN 0 ELSE 1

\* penalties and warnings of validate_usage_values; overall is the fraction
\* <<sum of the three factors, 3>>
validate_usage_values(water, electricity, gas) ==
    LET penalties == [water |-> zero_penalty(water),
                      electricity |-> zero_penalty(electricity),
                      gas |-> zero_penalty(gas)]
    IN  [penalties |-> penalties,
         overall |-> <<penalties.water + penalties.electricity + penalties.gas, 3>>,
         warnings |-> (IF water = 0 THEN <<"water">> ELSE <<>>)
                      \o (IF electricity = 0 THEN <<"electricity">> ELSE <<>>)
                      \o (IF gas = 0 THEN <<"gas">> ELSE <<>>)]

\* penalties['overall'] <= limit, limit in tenths
PenaltyLeq(overall, limit) == overall[1] * 10 <= limit * overall[2]

\* ai_points after the cap; ai_points is in hundredths of a point divided by
\* the denominator of the overall penalty
cap_points(ai_points, overall) ==
    IF PenaltyLeq(overall, 2) THEN Min(ai_points, 1 * 100 * overall[2])
    ELSE IF PenaltyLeq(overall, 4) THEN Min(ai_points, 3 * 100 * overall[2])
    ELSE IF PenaltyLeq(overall, 7) THEN Min(ai_points, 6 * 100 * overall[2])
    ELSE ai_points

\* the records of the database the assessment reads (the database module is
\* not part of the sources: every record of the user, or, without a user, the
\* last 50 records)
get_user_usage_last_year(db, user_id) == SelectSeq(db, LAMBDA r : r.user_id = user_id)
get_utility_history(db, limit) ==
    IF Len(db) <= limit THEN db ELSE SubSeq(db, Len(db) - limit + 1, Len(db))

\* an assessment that takes the number of training samples for the flag
raw_efficiency_BySamples(water_gallons, electricity_kwh, gas_cubic_m, data_for_analysis, trained) ==
    IF model_performance.training_samples > 1 /\ Len(data_for_analysis) > 0
    THEN analyze_usage_patterns(data_for_analysis)
    ELSE <<water_efficiency(water_gallons) + electricity_efficiency(electricity_kwh)
             + gas_efficiency(gas_cubic_m), 3>>

\* efficiency_score after line 321: the tier mean, or the history's average
raw_efficiency(water_gallons, electricity_kwh, gas_cubic_m, data_for_analysis, trained) ==
    IF trained /\ Len(data_for_analysis) > 0
    THEN analyze_usage_patterns(data_for_analysis)
    ELSE <<water_efficiency(water_gallons) + electricity_efficiency(electricity_kwh)
             + gas_efficiency(gas_cubic_m), 3>>

\* the result: statuses, efficiency_score in tenths of a percent, ai_points in
\* tenths of a point, one warning per utility that is zero
assess_usage_with_ai(water_gallons, electricity_kwh, gas_cubic_m, user, db, trained) ==
    LET data_for_analysis == IF user # NoUser
                             THEN get_user_usage_last_year(db, user[1].id)
                             ELSE get_utility_history(db, 50)
        statuses == assess_usage_with_context(water_gallons, electricity_kwh, gas_cubic_m)
        raw == raw_efficiency(water_gallons, electricity_kwh, gas_cubic_m,
                              data_for_analysis, trained)
        validation == validate_usage_values(water_gallons, electricity_kwh, gas_cubic_m)
        efficiency_score == <<raw[1] * validation.overall[1], raw[2] * validation.overall[2]>>
        base_ai_points == calculate_ai_points(statuses[1], statuses[2], statuses[3],
                                              efficiency_score, user)
        \* base_ai_points * penalties['overall']
        ai_points == cap_points(base_ai_points * validation.overall[1], validation.overall)
    IN  [fn |-> "assess_usage_with_ai",
         water_status |-> statuses[1],
         electricity_status |-> statuses[2],
         gas_status |-> statuses[3],
         efficiency_score |-> RoundDiv(efficiency_score[1] * 10, efficiency_score[2]),
         ai_points |-> RoundDiv(ai_points, 10 * validation.overall[2]),
         validation_warnings |-> validation.warnings,
         data_points |-> Len(data_for_analysis),
         penalties_applied |-> validation.penalties,
         penalty_overall |-> validation.overall]

----------------------------------------------------------------------------
(* Calls of calculate_ai_points on its whole input domain *)

UnknownLabel == "excellent"
Labels == StatusLabel \cup {UnknownLabel}
EffScores == {0, 19, 20, 29, 30, 40, 50, 60, 70, 80, 85, 90, 94, 95, 100}
UserProfiles == [id : {1}, household_size : 1..MaxHousehold,
                 energy_features : {Absent, Malformed} \cup {FeatureList(n) : n \in 0..MaxFeatures}]
Users == {NoUser} \cup {<<u>> : u \in UserProfiles}

ScoreArgs == [fn : {"calculate_ai_points"}, water_status : Labels,
              electricity_status : Labels, gas_status : Labels,
              efficiency_score : {<<e, 1>> : e \in EffScores}, user : Users]

InitScore ==
    /\ is_trained = FALSE
    /\ model_performance = [training_samples |-> 0, last_training |-> None]
    /\ db_usage = <<>>
    /\ call \in ScoreArgs
    /\ ret = NoCall
    /\ prev = NoCall
    /\ sessions = <<>>
    /\ db_users = <<>>
    /\ clicks = 0
    /\ conversation_context = InitialContext

CalculateAiPoints ==
    /\ call.fn = "calculate_ai_points"
    /\ ret = NoCall
    /\ ret' = [fn |-> "calculate_ai_points", points |-> calculate_ai_points(call.water_status, call.electricity_status,
                              call.gas_status, call.efficiency_score, call.user),
               efficiency_modifier |-> efficiency_modifier(call.efficiency_score)]
    /\ UNCHANGED <<is_trained, model_performance, db_usage, call, prev, sessions, clicks, db_users,
                 conversation_context>>

NextScore == CalculateAiPoints

SpecScore == InitScore /\ [][NextScore]_vars

----------------------------------------------------------------------------
(* Calls of calculate_ai_points on the whole efficiency scale, in thirds of  *)
(* a percent as the mean of three sub-scores gives them                      *)

ModifierArgs == [fn : {"calculate_ai_points"}, water_status : {"Good"},
                 electricity_status : {"Good", "Critical"}, gas_status : {"Good"},
                 efficiency_score : {<<n, 3>> : n \in 0..300}, user : {NoUser}]

InitModifier ==
    /\ is_trained = FALSE
    /\ model_performance = [training_samples |-> 0, last_training |-> None]
    /\ db_usage = <<>>
    /\ call \in ModifierArgs
    /\ ret = NoCall
    /\ prev = NoCall
    /\ sessions = <<>>
    /\ db_users = <<>>
    /\ clicks = 0
    /\ conversation_context = InitialContext

SpecModifier == InitModifier /\ [][NextScore]_vars

----------------------------------------------------------------------------
(* Calls of assess_usage_with_ai and EcoAI.train_models by a caller of the   *)
(* scoring functions: two assessments, and trainings at any time             *)

WaterValues == {0, 3000, 3001, 5000, 25000}
ElectricityValues == {0, 500, 2500}
GasValues == {0, 100, 300, 400}

UsageRecord(user_id, water, electricity, gas, points, kind) ==
    [user_id |-> user_id, water_gallons |-> water, electricity_kwh |-> electricity,
     gas_cubic_m |-> gas, ai_points |-> points, kind |-> kind]

\* an efficient and a wasteful month, as stored by earlier sessions
HistoryRecords == {UsageRecord(1, 40, 300, 50, 0, "history"),
                   UsageRecord(1, 5000, 1500, 200, 0, "history")}

RECURSIVE SeqsUpTo(_, _)
SeqsUpTo(S, n) ==
    IF n = 0 THEN {<<>>}
    ELSE LET shorter == SeqsUpTo(S, n - 1)
         IN  shorter \cup {Append(q, x) : q \in shorter, x \in S}

AssessUsers == {NoUser,
                <<[id |-> 1, household_size |-> MaxHousehold,
                   energy_features |-> FeatureList(MaxFeatures)]>>}

AssessArgs == [fn : {"assess_usage_with_ai"}, water_gallons : WaterValues,
               electricity_kwh : ElectricityValues, gas_cubic_m : GasValues,
               user : AssessUsers]

InitAssess ==
    /\ is_trained = FALSE
    /\ model_performance = [training_samples |-> 0, last_training |-> None]
    /\ db_usage \in SeqsUpTo(HistoryRecords, MaxHistory)
    /\ call = NoCall
    /\ ret = NoCall
    /\ prev = NoCall
    /\ sessions = <<>>
    /\ db_users = <<>>
    /\ clicks = 0
    /\ conversation_context = InitialContext

\* a call of assess_usage_with_ai; the global eco_ai.is_trained it reads and the
\* history it loads are recorded with the arguments
AssessUsageWithAI ==
    /\ prev = NoCall
    /\ \E args \in AssessArgs :
        /\ call' = [fn |-> args.fn, water_gallons |-> args.water_gallons,
                    electricity_kwh |-> args.electricity_kwh,
                    gas_cubic_m |-> args.gas_cubic_m, user |-> args.user,
                    is_trained |-> is_trained, history |-> db_usage]
        /\ ret' = assess_usage_with_ai(args.water_gallons, args.electricity_kwh,
                                       args.gas_cubic_m, args.user, db_usage, is_trained)
    /\ prev' = IF call = NoCall THEN NoCall
               ELSE [fn |-> "assess_usage_with_ai", call |-> call, ret |-> ret]
    /\ UNCHANGED <<is_trained, model_performance, db_usage, sessions, clicks, db_users,
                 conversation_context>>

\* eco_ai.train_models(data_for_training), with the last n stored records
TrainModels ==
    /\ \E n \in 0..Len(db_usage) :
        LET data == get_utility_history(db_usage, n)
            result == train_models(data, is_trained, model_performance)
        IN  /\ is_trained' = result[1]
            /\ model_performance' = result[2]
    /\ UNCHANGED <<db_usage, call, ret, prev, sessions, clicks, db_users,
                 conversation_context>>

NextAssess == AssessUsageWithAI \/ TrainModels

SpecAssess == InitAssess /\ [][NextAssess]_vars

----------------------------------------------------------------------------
(* Calls of assess_usage_with_ai with readings at and next to every          *)
(* breakpoint of the three tier tables, without a user                       *)

WaterBoundaries == {0, 1, 3000, 3001, 5000, 5001, 8000, 8001, 12000, 12001,
                    15000, 15001, 20000, 20001}
ElectricityBoundaries == {0, 1, 300, 301, 500, 501, 800, 801, 1200, 1201,
                          1600, 1601, 2000, 2001}
GasBoundaries == {0, 1, 50, 51, 80, 81, 120, 121, 180, 181, 250, 251, 350, 351}

\* eco_ai before and after a training on one record; no history or one month
InitTiers ==
    /\ is_trained \in BOOLEAN
    /\ model_performance = IF is_trained
                           THEN [training_samples |-> 1, last_training |-> "Recently trained"]
                           ELSE [training_samples |-> 0, last_training |-> None]
    /\ db_usage \in {<<>>, <<UsageRecord(1, 5000, 1500, 200, 0, "history")>>}
    /\ call = NoCall
    /\ ret = NoCall
    /\ prev = NoCall
    /\ sessions = <<>>
    /\ db_users = <<>>
    /\ clicks = 0
    /\ conversation_context = InitialContext

AssessBoundaryReading ==
    /\ call = NoCall
    /\ \E water \in WaterBoundaries, electricity \in ElectricityBoundaries,
          gas \in GasBoundaries :
        /\ call' = [fn |-> "assess_usage_with_ai", water_gallons |-> water,
                    electricity_kwh |-> electricity, gas_cubic_m |-> gas, user |-> NoUser,
                    is_trained |-> is_trained, history |-> db_usage]
        /\ ret' = assess_usage_with_ai(water, electricity, gas, NoUser, db_usage, is_trained)
    /\ UNCHANGED <<is_trained, model_performance, db_usage, prev, sessions, clicks, db_users,
                 conversation_context>>

NextTiers == AssessBoundaryReading

SpecTiers == InitTiers /\ [][NextTiers]_vars

----------------------------------------------------------------------------
(* The environmental class of a window of stored readings,                   *)
(* database.calculate_environmental_class (the module is not part of the     *)
(* sources: from the contract of classify_history)                           *)

\* normal ranges with floor and ceiling exchanged
normal_ranges_Swapped ==
    [water       |-> [min |-> 12000, max |-> 3000],
     electricity |-> [min |-> 800,   max |-> 300],
     gas         |-> [min |-> 150,   max |-> 50]]

\* the normal range of each utility
normal_ranges ==
    [water       |-> [min |-> 3000, max |-> 12000],
     electricity |-> [min |-> 300,  max |-> 800],
     gas         |-> [min |-> 50,   max |-> 150]]

RECURSIVE window_sums(_)
window_sums(window) ==
    IF window = <<>> THEN [water |-> 0, electricity |-> 0, gas |-> 0]
    ELSE LET rest == window_sums(Tail(window))
         IN  [water |-> Head(window).water_gallons + rest.water,
              electricity |-> Head(window).electricity_kwh + rest.electricity,
              gas |-> Head(window).gas_cubic_m + rest.gas]

\* the number of utilities whose mean over the window is below the floor of
\* its normal range (mean < min, as sum < min * length), and above its ceiling
means_below(window) ==
    LET sums == window_sums(window)
    IN  Cardinality({u \in DOMAIN normal_ranges :
                        sums[u] < normal_ranges[u].min * Len(window)})
means_above(window) ==
    LET sums == window_sums(window)
    IN  Cardinality({u \in DOMAIN normal_ranges :
                        sums[u] > normal_ranges[u].max * Len(window)})

\* a classifier with a branch for the empty window only
calculate_environmental_class_EmptyOnly(window) ==
    IF Len(window) = 0 THEN "B"
    ELSE IF means_below(window) >= 2 THEN "A"
    ELSE IF means_above(window) >= 2 THEN "C"
    ELSE "B"

\* classify_history: the neutral class for an empty or single-reading window
calculate_environmental_class(window) ==
    IF Len(window) <= 1 THEN "B"
    ELSE IF means_below(window) >= 2 THEN "A"
    ELSE IF means_above(window) >= 2 THEN "C"
    ELSE "B"

\* db.update_user_environmental_class
update_user_environmental_class(users, user_id, env_class) ==
    [users EXCEPT ![user_id] = env_class]

----------------------------------------------------------------------------
(* Calls of calculate_environmental_class on windows of stored readings *)

\* months below, at and above the limits of the normal ranges
ClassReadings ==
    {UsageRecord(1, 2999, 299, 49, 0, "database"),
     UsageRecord(1, 3000, 300, 50, 0, "database"),
     UsageRecord(1, 12000, 800, 150, 0, "database"),
     UsageRecord(1, 12001, 801, 151, 0, "database"),
     UsageRecord(1, 2999, 801, 100, 0, "history"),
     UsageRecord(1, 2000, 200, 151, 0, "history"),
     UsageRecord(1, 13000, 900, 49, 0, "history")}

ClassArgs == [fn : {"calculate_environmental_class"},
              window : SeqsUpTo(ClassReadings, MaxWindow)]

InitClass ==
    /\ is_trained = FALSE
    /\ model_performance = [training_samples |-> 0, last_training |-> None]
    /\ db_usage = <<>>
    /\ call \in ClassArgs
    /\ ret = NoCall
    /\ prev = NoCall
    /\ sessions = <<>>
    /\ db_users = <<>>
    /\ clicks = 0
    /\ conversation_context = InitialContext

CalculateEnvironmentalClass ==
    /\ call.fn = "calculate_environmental_class"
    /\ ret = NoCall
    /\ ret' = [fn |-> "calculate_environmental_class",
               class |-> calculate_environmental_class(call.window)]
    /\ UNCHANGED <<is_trained, model_performance, db_usage, call, prev, sessions, clicks, db_users,
                 conversation_context>>

NextClass == CalculateEnvironmentalClass

SpecClass == InitClass /\ [][NextClass]_vars

----------------------------------------------------------------------------
(* The application: browser sessions running the script of app.py against   *)
(* the shared eco_ai instance and the database                              *)

Sessions == {"s1", "s2"}

\* the logged-in user of both sessions
CurrentUser == <<[id |-> 1, household_size |-> 5, energy_features |-> FeatureList(12)]>>

\* what the three number inputs hold when a button is clicked; the handler is
\* also given a negative value, which the widgets (min_value=0.0) do not let in
PageReadings == {<<5000, 500, 100>>, <<0, 500, 100>>, <<-1, 500, 100>>,
                 <<500, 500, 500>>, <<50, 5, 1>>}
Buttons == {"assess", "save", "history"}

\* the records other users stored on earlier days: as many as the AI
\* initialization block still takes for too few to train on
SeedUsage == [i \in 1..5 |-> UsageRecord(2, 5000, 1500, 200, 0, "history")]

\* the users with a row in the database: the logged-in user and the user of
\* the records stored on earlier days
UserIds == {CurrentUser[1].id, SeedUsage[1].user_id}

\* environmental_class is st.session_state.current_user.environmental_class,
\* updated_usage the local variable of the save handler
IdleSession ==
    [ai_initialized |-> FALSE, pc |-> "idle", water |-> 0, electricity |-> 0, gas |-> 0,
     button |-> "none", penalty_points |-> 0, error |-> "none", ai_analysis |-> NoCall,
     final_points |-> 0, saved |-> "none", environmental_class |-> None,
     updated_usage |-> <<>>]

Init ==
    /\ is_trained = FALSE
    /\ model_performance = [training_samples |-> 0, last_training |-> None]
    /\ db_usage \in {<<>>, SeedUsage}
    /\ call = NoCall
    /\ ret = NoCall
    /\ prev = NoCall
    /\ sessions = [s \in Sessions |-> IdleSession]
    /\ db_users = [id \in UserIds |-> None]
    /\ clicks = 0
    /\ conversation_context = InitialContext

\* the records of the user saved to the database today: every such record of
\* the model (the seed records are of earlier days and of another user)
entries_today(db, user_id) ==
    Len(SelectSeq(db, LAMBDA r : r.user_id = user_id /\ r.kind = "database"))

\* db.check_daily_usage_limit: at most 2 database entries a day
check_daily_usage_limit(db, user_id) == entries_today(db, user_id) < 2

\* db.save_utility_usage and db.save_utility_usage_to_history
save_utility_usage(db, user_id, water, electricity, gas, points) ==
    Append(db, UsageRecord(user_id, water, electricity, gas, points, "database"))
save_utility_usage_to_history(db, user_id, water, electricity, gas) ==
    Append(db, UsageRecord(user_id, water, electricity, gas, 0, "history"))

\* an initialization that trains on any stored record
enough_to_train_Any(historical_data) == Len(historical_data) > 0

\* len(historical_data) > 5
enough_to_train(historical_data) == Len(historical_data) > 5

\* the AI initialization block at the top of the script, run once per session
\* (a session starts here right after its login; database errors are left out)
InitializeAI(s) ==
    /\ ~sessions[s].ai_initialized
    /\ LET historical_data == get_utility_history(db_usage, 20)
       IN  IF enough_to_train(historical_data)
           THEN LET result == train_models(historical_data, is_trained, model_performance)
                IN  /\ is_trained' = result[1]
                    /\ model_performance' = result[2]
                    /\ sessions' = [sessions EXCEPT ![s].ai_initialized = result[3]]
           ELSE /\ sessions' = [sessions EXCEPT ![s].ai_initialized = TRUE]
                /\ UNCHANGED <<is_trained, model_performance,
                 conversation_context>>
    /\ UNCHANGED <<db_usage, call, ret, prev, clicks, db_users,
                 conversation_context>>

\* a penalty of 1 point per utility below its minimum
penalty_points_OnePerUtility(water, electricity, gas) ==
    (IF water < 100 THEN 1 ELSE 0) + (IF electricity < 10 THEN 1 ELSE 0)
        + (IF gas < 2 THEN 1 ELSE 0)

\* a penalty of 3 points per utility below its minimum
penalty_points_ThreePerUtility(water, electricity, gas) ==
    (IF water < 100 THEN 3 ELSE 0) + (IF electricity < 10 THEN 3 ELSE 0)
        + (IF gas < 2 THEN 3 ELSE 0)

\* penalty_points of the minimum value requirements
penalty_points(water, electricity, gas) ==
    (IF water < 100 THEN 2 ELSE 0) + (IF electricity < 10 THEN 2 ELSE 0)
        + (IF gas < 2 THEN 2 ELSE 0)

\* a validation without the check for three equal values
input_error_NoSameCheck(water, electricity, gas) ==
    IF water <= 0 \/ electricity <= 0 \/ gas <= 0 THEN "zero_or_negative"
    ELSE "none"

\* the error that stops the script before the assessment, or "none"
input_error(water, electricity, gas) ==
    IF water <= 0 \/ electricity <= 0 \/ gas <= 0 THEN "zero_or_negative"
    ELSE IF water = electricity /\ electricity = gas THEN "all_same"
    ELSE "none"

\* a click on one of the three buttons of the usage tracker: the script run
\* up to the validation of the inputs
Click(s) ==
    /\ sessions[s].ai_initialized
    /\ sessions[s].pc \in {"idle", "stopped", "done"}
    /\ clicks < MaxClicks
    /\ clicks' = clicks + 1
    /\ \E reading \in PageReadings, button \in Buttons :
        LET error == input_error(reading[1], reading[2], reading[3])
        IN  sessions' = [sessions EXCEPT ![s] =
                [ai_initialized |-> TRUE,
                 pc |-> IF error = "none" THEN "assess" ELSE "stopped",
                 water |-> reading[1], electricity |-> reading[2], gas |-> reading[3],
                 button |-> button,
                 penalty_points |-> penalty_points(reading[1], reading[2], reading[3]),
                 error |-> error, ai_analysis |-> NoCall, final_points |-> 0,
                 saved |-> "none",
                 environmental_class |-> sessions[s].environmental_class,
                 updated_usage |-> <<>>]]
    /\ UNCHANGED <<is_trained, model_performance, db_usage, call, ret, prev, db_users,
                 conversation_context>>

\* the assessment of the validated reading
Assess(s) ==
    /\ sessions[s].pc = "assess"
    /\ sessions' = [sessions EXCEPT
          ![s].ai_analysis = assess_usage_with_ai(sessions[s].water, sessions[s].electricity,
                                 sessions[s].gas, CurrentUser, db_usage, is_trained),
          ![s].pc = IF sessions[s].button = "save" THEN "check_limit"
                    ELSE IF sessions[s].button = "history" THEN "save_history"
                    ELSE "done"]
    /\ UNCHANGED <<is_trained, model_performance, db_usage, call, ret, prev, clicks, db_users,
                 conversation_context>>

\* a save of the award as the assessment returned it
final_points_NoPenalty(ai_points, penalty) == Min(ai_points, 100)

\* ai_points - penalty_points, at most 10, in tenths of a point
final_points(ai_points, penalty) == Min(ai_points - 10 * penalty, 100)

\* Save to Database: the check of the daily limit
CheckLimit(s) ==
    /\ sessions[s].pc = "check_limit"
    /\ IF check_daily_usage_limit(db_usage, CurrentUser[1].id)
       THEN sessions' = [sessions EXCEPT
                ![s].final_points = final_points(sessions[s].ai_analysis.ai_points,
                                                 sessions[s].penalty_points),
                ![s].pc = "save"]
       ELSE sessions' = [sessions EXCEPT ![s].error = "limit", ![s].pc = "done"]
    /\ UNCHANGED <<is_trained, model_performance, db_usage, call, ret, prev, clicks, db_users,
                 conversation_context>>

\* Save to Database: the save that follows an allowing check
SaveToDatabase(s) ==
    /\ sessions[s].pc = "save"
    /\ db_usage' = save_utility_usage(db_usage, CurrentUser[1].id, sessions[s].water,
                       sessions[s].electricity, sessions[s].gas, sessions[s].final_points)
    /\ sessions' = [sessions EXCEPT ![s].saved = "database", ![s].pc = "update_class"]
    /\ UNCHANGED <<is_trained, model_performance, call, ret, prev, clicks, db_users,
                 conversation_context>>

\* Save to Database: the update of the user's environmental class that
\* follows a successful save
UpdateEnvironmentalClass(s) ==
    /\ sessions[s].pc = "update_class"
    /\ LET updated_usage == get_user_usage_last_year(db_usage, CurrentUser[1].id)
       IN  IF updated_usage # <<>>
           THEN LET env_class == calculate_environmental_class(updated_usage)
                IN  /\ db_users' = update_user_environmental_class(db_users,
                                        CurrentUser[1].id, env_class)
                    /\ sessions' = [sessions EXCEPT ![s].environmental_class = env_class,
                                                    ![s].updated_usage = updated_usage,
                                                    ![s].pc = "done"]
           ELSE /\ sessions' = [sessions EXCEPT ![s].pc = "done"]
                /\ UNCHANGED db_users
    /\ UNCHANGED <<is_trained, model_performance, db_usage, call, ret, prev, clicks,
                 conversation_context>>

\* Save to History
SaveToHistory(s) ==
    /\ sessions[s].pc = "save_history"
    /\ db_usage' = save_utility_usage_to_history(db_usage, CurrentUser[1].id,
                       sessions[s].water, sessions[s].electricity, sessions[s].gas)
    /\ sessions' = [sessions EXCEPT ![s].saved = "history", ![s].pc = "done"]
    /\ UNCHANGED <<is_trained, model_performance, call, ret, prev, clicks, db_users,
                 conversation_context>>

Next ==
    \E s \in Sessions :
        \/ InitializeAI(s)
        \/ Click(s)
        \/ Assess(s)
        \/ CheckLimit(s)
        \/ SaveToDatabase(s)
        \/ UpdateEnvironmentalClass(s)
        \/ SaveToHistory(s)

Spec == Init /\ [][Next]_vars

----------------------------------------------------------------------------
(* Save to Database by one session, for every profile of the logged-in user, *)
(* either state of the shared model and every stored history                 *)

\* the logged-in user with no bonus, with a malformed feature list and with
\* the largest household and feature list
SaveUsers == {<<[id |-> 1, household_size |-> 1, energy_features |-> Absent]>>,
              <<[id |-> 1, household_size |-> 2, energy_features |-> Malformed]>>,
              <<[id |-> 1, household_size |-> MaxHousehold,
                 energy_features |-> FeatureList(MaxFeatures)]>>}

\* readings with three, two, one and no value below the minimum, a reading
\* the validation stops, and a wasteful one
SaveReadings == {<<50, 5, 1>>, <<99, 9, 2>>, <<100, 10, 1>>, <<100, 10, 2>>,
                 <<0, 500, 100>>, <<25000, 2500, 400>>}

InitSave ==
    /\ is_trained \in BOOLEAN
    /\ model_performance = IF is_trained
                           THEN [training_samples |-> 6, last_training |-> "Recently trained"]
                           ELSE [training_samples |-> 0, last_training |-> None]
    /\ db_usage \in SeqsUpTo(HistoryRecords, MaxHistory)
    /\ call = NoCall
    /\ ret = NoCall
    /\ prev = NoCall
    /\ sessions = <<>>
    /\ db_users = [id \in {1} |-> None]
    /\ clicks = 0
    /\ conversation_context = InitialContext

\* one run of the handler for a click on Save to Database: validation,
\* assessment, check of the daily limit, save and update of the class
ClickSaveToDatabase ==
    /\ clicks < MaxClicks
    /\ clicks' = clicks + 1
    /\ \E reading \in SaveReadings, user \in SaveUsers :
        LET water == reading[1]
            electricity == reading[2]
            gas == reading[3]
            penalty == penalty_points(water, electricity, gas)
            error == input_error(water, electricity, gas)
            ai_analysis == assess_usage_with_ai(water, electricity, gas, user, db_usage,
                                                is_trained)
            can_save == check_daily_usage_limit(db_usage, user[1].id)
            final == final_points(ai_analysis.ai_points, penalty)
            saved == save_utility_usage(db_usage, user[1].id, water, electricity, gas, final)
            updated_usage == get_user_usage_last_year(saved, user[1].id)
        IN  /\ call' = [fn |-> "save_to_database", water_gallons |-> water,
                        electricity_kwh |-> electricity, gas_cubic_m |-> gas,
                        user |-> user, is_trained |-> is_trained, history |-> db_usage]
            /\ IF error # "none"
               THEN /\ ret' = [fn |-> "save_to_database", error |-> error,
                               penalty_points |-> penalty, ai_points |-> 0,
                               final_points |-> 0, saved |-> FALSE]
                    /\ UNCHANGED <<db_usage, db_users>>
               ELSE IF ~can_save
               THEN /\ ret' = [fn |-> "save_to_database", error |-> "limit",
                               penalty_points |-> penalty,
                               ai_points |-> ai_analysis.ai_points,
                               final_points |-> 0, saved |-> FALSE]
                    /\ UNCHANGED <<db_usage, db_users>>
               ELSE /\ ret' = [fn |-> "save_to_database", error |-> "none",
                               penalty_points |-> penalty,
                               ai_points |-> ai_analysis.ai_points,
                               final_points |-> final, saved |-> TRUE]
                    /\ db_usage' = saved
                    /\ db_users' = update_user_environmental_class(db_users, user[1].id,
                                        calculate_environmental_class(updated_usage))
    /\ UNCHANGED <<is_trained, model_performance, prev, sessions, conversation_context>>

NextSave == ClickSaveToDatabase

SpecSave == InitSave /\ [][NextSave]_vars

----------------------------------------------------------------------------
(* Calls of train_models and predict_usage on the shared eco_ai *)

NoData == <<>>

\* data_for_training: missing (None), or a list of up to MaxHistory records
TrainingInputs == {NoData} \cup {<<data>> : data \in SeqsUpTo(HistoryRecords, MaxHistory)}

\* latest_data: records with all, some and none of the keys predict_usage reads
LatestData == {[water_gallons |-> 5000, electricity_kwh |-> 1500, gas_cubic_m |-> 200],
               [water_gallons |-> 40, electricity_kwh |-> 300, gas_cubic_m |-> 50],
               [water_gallons |-> 40],
               [electricity_kwh |-> 300, gas_cubic_m |-> 50],
               [water_gallons |-> 0, electricity_kwh |-> 0, gas_cubic_m |-> 0],
               [timestamp |-> 0]}

\* random.uniform(0.9, 1.1) and random.uniform(0.1, 0.3), in percent
Variations == {90, 100, 110}
AnomalyProbabilities == {10, 20, 30}

InitTrain ==
    /\ is_trained = FALSE
    /\ model_performance = [training_samples |-> 0, last_training |-> None]
    /\ db_usage = <<>>
    /\ call = NoCall
    /\ ret = NoCall
    /\ prev = NoCall
    /\ sessions = <<>>
    /\ db_users = <<>>
    /\ clicks = 0
    /\ conversation_context = InitialContext

CallTrainModels ==
    /\ \E input \in TrainingInputs :
        LET result == train_models(IF input = NoData THEN <<>> ELSE input[1],
                                   is_trained, model_performance)
        IN  /\ is_trained' = result[1]
            /\ model_performance' = result[2]
            /\ call' = [fn |-> "train_models", data_for_training |-> input,
                        is_trained |-> is_trained]
            /\ ret' = [fn |-> "train_models", success |-> result[3], message |-> result[4]]
    /\ UNCHANGED <<db_usage, prev, sessions, db_users, clicks, conversation_context>>

CallPredictUsage ==
    /\ \E latest_data \in LatestData, variation \in Variations,
          anomaly_probability \in AnomalyProbabilities :
        /\ call' = [fn |-> "predict_usage", latest_data |-> latest_data,
                    is_trained |-> is_trained]
        /\ ret' = [fn |-> "predict_usage",
                   result |-> predict_usage(latest_data, is_trained, variation,
                                            anomaly_probability)]
    /\ UNCHANGED <<is_trained, model_performance, db_usage, prev, sessions, db_users,
                   clicks, conversation_context>>

NextTrain == CallTrainModels \/ CallPredictUsage

SpecTrain == InitTrain /\ [][NextTrain]_vars

----------------------------------------------------------------------------
(* UltraSmartChatbot, ultra_smart_chatbot.py: a conversation with the shared *)
(* ultra_smart_chatbot instance                                              *)

\* the topics in the order _identify_topic tries them, with their keywords
topic_keywords ==
    <<[topic |-> "carbon_footprint",
       keywords |-> {"carbon", "emissions", "footprint", "co2", "greenhouse gas",
                     "climate change"}],
      [topic |-> "renewable_energy",
       keywords |-> {"solar", "wind", "renewable", "clean energy", "panels", "turbine",
                     "grid"}],
      [topic |-> "sustainable_living",
       keywords |-> {"sustainable", "eco-friendly", "green living", "lifestyle",
                     "consumption"}],
      [topic |-> "water_conservation",
       keywords |-> {"water", "conservation", "drought", "irrigation", "aquifer",
                     "watershed"}]>>

\* a user input: the keywords its lower-case text contains, the number of
\* technical terms and of advanced indicators in it, and its number of words
UserInput(text, keywords, technical_count, advanced_count, words) ==
    [text |-> text, keywords |-> keywords, technical_count |-> technical_count,
     advanced_count |-> advanced_count, words |-> words]

\* the first topic with a keyword in the input, or None
_identify_topic(user_input) ==
    LET matching == {i \in DOMAIN topic_keywords :
                        topic_keywords[i].keywords \cap user_input.keywords # {}}
    IN  IF matching = {} THEN None
        ELSE topic_keywords[CHOOSE i \in matching : \A j \in matching : i <= j].topic

\* the expertise_level _analyze_user_expertise sets
_analyze_user_expertise(user_input) ==
    IF user_input.technical_count >= 2 \/ user_input.advanced_count >= 1 THEN "expert"
    ELSE IF user_input.technical_count >= 1 \/ user_input.words > 20 THEN "intermediate"
    ELSE "beginner"

\* the topics get_conversation_summary collects: one pass over the history,
\* adding conversation_context['current_topic'] for every entry
topics_discussed(context) ==
    IF context.conversation_history # <<>> /\ context.current_topic # None
    THEN {context.current_topic}
    ELSE {}

UserInputs ==
    {UserInput("How do I cut my carbon emissions?", {"carbon", "emissions"}, 0, 0, 7),
     UserInput("Are solar panels worth it?", {"solar", "panels"}, 0, 0, 5),
     UserInput("Can solar pumps save water?", {"solar", "water"}, 0, 0, 5),
     UserInput("Water conservation in a drought with a photovoltaic pump",
               {"water", "conservation", "drought"}, 1, 0, 9),
     UserInput("Hello", {}, 0, 0, 1)}

InitChat ==
    /\ is_trained = FALSE
    /\ model_performance = [training_samples |-> 0, last_training |-> None]
    /\ db_usage = <<>>
    /\ call = NoCall
    /\ ret = NoCall
    /\ prev = NoCall
    /\ sessions = <<>>
    /\ db_users = <<>>
    /\ clicks = 0
    /\ conversation_context = InitialContext

\* get_ultra_smart_response(user_input), without a user_context; the text of
\* the response is chosen at random and stands for its topic here
GetUltraSmartResponse ==
    /\ Len(conversation_context.conversation_history) < MaxMessages
    /\ \E user_input \in UserInputs :
        LET topic == _identify_topic(user_input)
        IN  /\ conversation_context' =
                  [conversation_history |->
                       Append(conversation_context.conversation_history,
                              [user_input |-> user_input]),
                   current_topic |-> IF topic # None THEN topic
                                     ELSE conversation_context.current_topic,
                   expertise_level |-> _analyze_user_expertise(user_input)]
            /\ call' = [fn |-> "get_ultra_smart_response", user_input |-> user_input]
            /\ ret' = [fn |-> "get_ultra_smart_response", topic |-> topic]
    /\ UNCHANGED <<is_trained, model_performance, db_usage, prev, sessions, db_users, clicks>>

\* get_conversation_summary(): the kind of summary and the topics it names
GetConversationSummary ==
    /\ call' = [fn |-> "get_conversation_summary"]
    /\ ret' = [fn |-> "get_conversation_summary",
               summary |-> IF conversation_context.conversation_history = <<>>
                           THEN "not_chatted"
                           ELSE IF topics_discussed(conversation_context) # {}
                                THEN "topics" ELSE "general",
               topics |-> topics_discussed(conversation_context)]
    /\ UNCHANGED <<is_trained, model_performance, db_usage, prev, sessions, db_users, clicks,
                   conversation_context>>

NextChat == GetUltraSmartResponse \/ GetConversationSummary

SpecChat == InitChat /\ [][NextChat]_vars

----------------------------------------------------------------------------
\* C1: calculate_ai_points returns a value in [-5.0, 10.0] for every
\* combination of status labels, efficiency score and user context
C1_PointsInRange ==
    (ret.fn = "calculate_ai_points")
        => (ret.points >= -500 /\ ret.points <= 1000)

\* the clamp acted: three "Excellent" labels with every bonus return exactly 10
C1_Witness ==
    /\ ret.fn = "calculate_ai_points"
    /\ call.water_status = "Excellent" /\ call.electricity_status = "Excellent"
    /\ call.gas_status = "Excellent"
    /\ call.efficiency_score = <<100, 1>>
    /\ call.user # NoUser
    /\ context_bonus(call.user) = 7000
    /\ ret.points = 1000

----------------------------------------------------------------------------
(* Two assessments, the earlier one in prev and the later one in call/ret *)

Assessed == ret.fn = "assess_usage_with_ai"
AssessedTwice == Assessed /\ prev.fn = "assess_usage_with_ai"

AllPositive(c) == c.water_gallons > 0 /\ c.electricity_kwh > 0 /\ c.gas_cubic_m > 0

\* the later reading is the earlier one with a single utility value increased
SingleAxisIncrease(c1, c2) ==
    \/ /\ c2.water_gallons >= c1.water_gallons
       /\ c2.electricity_kwh = c1.electricity_kwh /\ c2.gas_cubic_m = c1.gas_cubic_m
    \/ /\ c2.electricity_kwh >= c1.electricity_kwh
       /\ c2.water_gallons = c1.water_gallons /\ c2.gas_cubic_m = c1.gas_cubic_m
    \/ /\ c2.gas_cubic_m >= c1.gas_cubic_m
       /\ c2.water_gallons = c1.water_gallons /\ c2.electricity_kwh = c1.electricity_kwh

\* everything but the reading is the same in both calls
SameContext(c1, c2) ==
    c1.user = c2.user /\ c1.history = c2.history /\ c1.is_trained = c2.is_trained

EfficiencyNonIncreasing ==
    (AssessedTwice /\ AllPositive(prev.call) /\ AllPositive(call)
        /\ SameContext(prev.call, call) /\ SingleAxisIncrease(prev.call, call))
        => ret.efficiency_score <= prev.ret.efficiency_score

\* C2 as stated: for every all-positive reading the efficiency score is in
\* [10,100] and non-increasing in each utility value
C2_Original ==
    /\ (Assessed /\ AllPositive(call))
          => (ret.efficiency_score >= 100 /\ ret.efficiency_score <= 1000)
    /\ EfficiencyNonIncreasing

\* C2 amended: for every all-positive reading the efficiency score is in
\* [0,100], in [10,100] when the model is untrained or the history is empty,
\* and non-increasing in each utility value for a fixed history and flag
C2_EfficiencyRangeMonotone ==
    /\ (Assessed /\ AllPositive(call))
          => /\ ret.efficiency_score >= 0 /\ ret.efficiency_score <= 1000
             /\ (~call.is_trained \/ ret.data_points = 0) => ret.efficiency_score >= 100
    /\ EfficiencyNonIncreasing

\* an untrained assessment of a larger water value scored lower than the
\* earlier one, down to the floor of 10
C2_Witness ==
    /\ AssessedTwice /\ AllPositive(prev.call) /\ AllPositive(call)
    /\ SameContext(prev.call, call) /\ SingleAxisIncrease(prev.call, call)
    /\ ~call.is_trained
    /\ call.water_gallons > prev.call.water_gallons
    /\ ret.efficiency_score < prev.ret.efficiency_score
    /\ ret.efficiency_score = 100

\* C3: the status label is the label of the breakpoint tier of the reading:
\* water 3000 is "Excellent" with sub-score 100, water 3001 is "Very Good"
\* with sub-score 85
C3_TierBoundaryLabel ==
    Assessed =>
        /\ call.water_gallons = 3000
              => (ret.water_status = "Excellent" /\ water_efficiency(3000) = 100)
        /\ call.water_gallons = 3001
              => (ret.water_status = "Very Good" /\ water_efficiency(3001) = 85)

\* C4: every status label the assessment produces is a member of StatusLabel,
\* so that the default of 1.50 base points is never taken
C4_LabelsKnown ==
    Assessed =>
        /\ ret.water_status \in StatusLabel
        /\ ret.electricity_status \in StatusLabel
        /\ ret.gas_status \in StatusLabel

\* C5: (5000, 500, 100) with no user is "Very Good", "Very Good", "Good",
\* efficiency 80 and 7.11 points
C5_Example ==
    (Assessed /\ call.water_gallons = 5000 /\ call.electricity_kwh = 500
        /\ call.gas_cubic_m = 100 /\ call.user = NoUser)
        => /\ ret.water_status = "Very Good"
           /\ ret.electricity_status = "Very Good"
           /\ ret.gas_status = "Good"
           /\ ret.efficiency_score = 800
           /\ ret.ai_points * 10 = 711

ZeroCount(c) ==
    (IF c.water_gallons = 0 THEN 1 ELSE 0) + (IF c.electricity_kwh = 0 THEN 1 ELSE 0)
        + (IF c.gas_cubic_m = 0 THEN 1 ELSE 0)

\* C6: a zero reading has penalty factor 0 and any other 1, the overall penalty
\* is their mean, and the award is at most 6.0, 3.0, 1.0 with one, two, three
\* zero readings
C6_ZeroPenaltyCap ==
    Assessed =>
        /\ ret.penalties_applied.water = (IF call.water_gallons = 0 THEN 0 ELSE 1)
        /\ ret.penalties_applied.electricity = (IF call.electricity_kwh = 0 THEN 0 ELSE 1)
        /\ ret.penalties_applied.gas = (IF call.gas_cubic_m = 0 THEN 0 ELSE 1)
        /\ ret.penalty_overall = <<3 - ZeroCount(call), 3>>
        /\ ZeroCount(call) = 1 => ret.ai_points <= 60
        /\ ZeroCount(call) = 2 => ret.ai_points <= 30
        /\ ZeroCount(call) = 3 => ret.ai_points <= 10

\* a reading with one zero was assessed for a user with every context bonus
C6_Witness ==
    /\ Assessed
    /\ call.water_gallons = 0 /\ call.electricity_kwh = 500 /\ call.gas_cubic_m = 100
    /\ call.user # NoUser /\ context_bonus(call.user) = 7000
    /\ ret.penalty_overall = <<2, 3>>
    /\ ret.ai_points > 0

----------------------------------------------------------------------------
(* The usage tracker page *)

Ran(s) == sessions[s].pc # "idle" /\ sessions[s].button # "none"
AnyNegative(s) == sessions[s].water < 0 \/ sessions[s].electricity < 0 \/ sessions[s].gas < 0
AllSame(s) == sessions[s].water = sessions[s].electricity
                /\ sessions[s].electricity = sessions[s].gas
PageZeroCount(s) ==
    (IF sessions[s].water = 0 THEN 1 ELSE 0) + (IF sessions[s].electricity = 0 THEN 1 ELSE 0)
        + (IF sessions[s].gas = 0 THEN 1 ELSE 0)

C8_ZeroIsSoft ==
    \A s \in Sessions :
        (Ran(s) /\ PageZeroCount(s) > 0 /\ ~AnyNegative(s) /\ ~AllSame(s))
            => /\ sessions[s].pc # "stopped"
               /\ sessions[s].pc = "done" =>
                    /\ sessions[s].ai_analysis.fn = "assess_usage_with_ai"
                    /\ Len(sessions[s].ai_analysis.validation_warnings) = PageZeroCount(s)

----------------------------------------------------------------------------
(* Determinism and the shared model flag *)

SameResult(r1, r2) ==
    /\ r1.water_status = r2.water_status
    /\ r1.electricity_status = r2.electricity_status
    /\ r1.gas_status = r2.gas_status
    /\ r1.efficiency_score = r2.efficiency_score
    /\ r1.ai_points = r2.ai_points

SameReading(c1, c2) ==
    /\ c1.water_gallons = c2.water_gallons
    /\ c1.electricity_kwh = c2.electricity_kwh
    /\ c1.gas_cubic_m = c2.gas_cubic_m

InitialPerformance == [training_samples |-> 0, last_training |-> None]

----------------------------------------------------------------------------
\* C11: the efficiency score returned by assess_usage_with_ai is in [0,100]
\* for every non-negative reading, zeros included, every history and either
\* value of the trained flag
C11_EfficiencyInRange ==
    Assessed => (ret.efficiency_score >= 0 /\ ret.efficiency_score <= 1000)

\* a trained model scored a reading with one zero from a history of two
\* records, a wasteful month among them, and the result was penalized
C11_Witness ==
    /\ Assessed /\ call.is_trained
    /\ ZeroCount(call) = 1
    /\ ret.data_points = 2
    /\ \E i \in 1..Len(call.history) : call.history[i].water_gallons = 5000
    /\ ret.efficiency_score > 0 /\ ret.efficiency_score < 1000

----------------------------------------------------------------------------
(* What Save to Database persists *)

\* the step in which session s saves its entry to the database
SavesEntry(s) == sessions[s].pc = "save" /\ sessions'[s].pc = "update_class"

\* the record a save step appended
SavedRecord == db_usage'[Len(db_usage')]

\* the number of utilities of the reading of s below the minimum of the page
BelowMinimumCount(s) ==
    (IF sessions[s].water < 100 THEN 1 ELSE 0) + (IF sessions[s].electricity < 10 THEN 1 ELSE 0)
        + (IF sessions[s].gas < 2 THEN 1 ELSE 0)

\* C12 as stated: the points Save to Database persists for a reading are the
\* ai_points assess_usage_with_ai returned for it
C12_Original ==
    [][\A s \in Sessions :
          SavesEntry(s) => SavedRecord.ai_points = sessions[s].ai_analysis.ai_points]_vars

\* C12 amended: the points Save to Database persists are the ai_points the
\* assessment returned less 2 points per utility below its minimum, at most
\* 10; they are the returned ai_points exactly when no utility is below its
\* minimum, and the result the handler holds is left as it was returned
C12_SavedIsAwardLessPenalty ==
    [][\A s \in Sessions :
          SavesEntry(s) =>
            /\ SavedRecord.ai_points
                  = Min(sessions[s].ai_analysis.ai_points - 20 * BelowMinimumCount(s), 100)
            /\ (SavedRecord.ai_points = sessions[s].ai_analysis.ai_points)
                  <=> (BelowMinimumCount(s) = 0)
            /\ sessions'[s].ai_analysis = sessions[s].ai_analysis
            /\ SavedRecord.water_gallons = sessions[s].water
            /\ SavedRecord.electricity_kwh = sessions[s].electricity
            /\ SavedRecord.gas_cubic_m = sessions[s].gas]_vars

\* an entry with all three utilities below their minimum was saved with 6
\* points less than the assessment returned
C12_Witness ==
    \E s \in Sessions :
        /\ sessions[s].saved = "database"
        /\ sessions[s].penalty_points = 6
        /\ sessions[s].final_points = sessions[s].ai_analysis.ai_points - 60
        /\ \E i \in 1..Len(db_usage) :
              /\ db_usage[i].kind = "database"
              /\ db_usage[i].water_gallons = sessions[s].water
              /\ db_usage[i].ai_points = sessions[s].final_points

----------------------------------------------------------------------------
(* calculate_ai_points: unknown labels and the user context *)

Scored == ret.fn = "calculate_ai_points"

\* the label with 1.50 base points in the table
LabelOrNormal(status) == IF status \in StatusLabel THEN status ELSE "Normal"

AllUnknown(c) ==
    /\ c.water_status \notin StatusLabel
    /\ c.electricity_status \notin StatusLabel
    /\ c.gas_status \notin StatusLabel

\* C13: calculate_ai_points returns a number in [-5.0, 10.0] for labels outside
\* the table, and every such label counts 1.50 base points: the result is
\* that of the call with "Normal" in the place of each unknown label, and
\* 4.50 for three unknown labels, an efficiency of 90 and no user
C13_UnknownLabelDefault ==
    (Scored /\ (call.water_status \notin StatusLabel \/ call.electricity_status \notin StatusLabel
                  \/ call.gas_status \notin StatusLabel))
        => /\ ret.points \in -500..1000
           /\ ret.points = calculate_ai_points(LabelOrNormal(call.water_status),
                                LabelOrNormal(call.electricity_status),
                                LabelOrNormal(call.gas_status), call.efficiency_score, call.user)
           /\ (AllUnknown(call) /\ call.efficiency_score = <<90, 1>> /\ call.user = NoUser)
                 => ret.points = 450

\* an unknown label between an "Excellent" and an "Emergency" one was scored
C13_Witness ==
    /\ Scored
    /\ call.water_status = "Excellent"
    /\ call.electricity_status \notin StatusLabel
    /\ call.gas_status = "Emergency"
    /\ call.efficiency_score = <<90, 1>>
    /\ call.user = NoUser
    /\ ret.points = 333 + 150 - 100

WithFeatures(user, features) == <<[user[1] EXCEPT !.energy_features = features]>>

\* C14: with an energy_features payload that does not parse,
\* calculate_ai_points returns a number, the features bonus is 0, and the
\* result is that of the same call for the same user with an empty feature
\* list, household bonus included
C14_MalformedIsNoFeatures ==
    (Scored /\ call.user # NoUser /\ call.user[1].energy_features = Malformed)
        => /\ ret.points \in -500..1000
           /\ ret.points = calculate_ai_points(call.water_status, call.electricity_status,
                                call.gas_status, call.efficiency_score,
                                WithFeatures(call.user, FeatureList(0)))
           /\ ret.points = RoundDiv(clamp_points(
                                total_utility_points(call.water_status, call.electricity_status,
                                                     call.gas_status)
                                  * efficiency_modifier(call.efficiency_score)
                                  + household_bonus(call.user)), 100)

\* a household of 3 with a payload that does not parse was scored with its
\* household bonus of 0.10 and nothing else added
C14_Witness ==
    /\ Scored /\ call.user # NoUser
    /\ call.user[1].energy_features = Malformed
    /\ call.user[1].household_size = 3
    /\ call.water_status = "Good" /\ call.electricity_status = "Good"
    /\ call.gas_status = "Good"
    /\ call.efficiency_score = <<90, 1>>
    /\ ret.points = 690 + 10

\* the context bonus as the claim gives it, in 1/10000 of a point
ClaimedContextBonus(user) ==
    IF user = NoUser THEN 0
    ELSE (IF user[1].household_size > 1
          THEN Min(500 * (user[1].household_size - 1), 3000) ELSE 0)
         + (IF user[1].energy_features.kind = "list"
            THEN Min(300 * user[1].energy_features.count, 4000) ELSE 0)

ClaimedExample(c) ==
    /\ c.user # NoUser
    /\ c.user[1].household_size = 5
    /\ c.user[1].energy_features = FeatureList(12)
    /\ c.water_status = "Excellent" /\ c.electricity_status = "Excellent"
    /\ c.gas_status = "Excellent"
    /\ EffGeq(c.efficiency_score, 95)

----------------------------------------------------------------------------
(* The environmental class *)

Classified == ret.fn = "calculate_environmental_class"

\* C16: after every successful save of a reading, by Save to Database and by
\* Save to History, the handler has retrieved the last-year window and the
\* user's environmental class is the class of that window
C16_ClassRecomputedAfterSave ==
    \A s \in Sessions :
        (sessions[s].pc = "done" /\ sessions[s].saved \in {"database", "history"})
            => /\ sessions[s].updated_usage # <<>>
               /\ sessions[s].environmental_class
                     = calculate_environmental_class(sessions[s].updated_usage)

\* the counts the claim is about: the means of the window below the floor and
\* above the ceiling of the normal range
BelowFloor(window) == means_below(window)
AboveCeiling(window) == means_above(window)

ClassAsClaimed(window, class) ==
    /\ class \in {"A", "B", "C"}
    /\ (class = "A") <=> (BelowFloor(window) >= 2)
    /\ (class = "C") <=> (AboveCeiling(window) >= 2)
    /\ ~(BelowFloor(window) >= 2 /\ AboveCeiling(window) >= 2)

----------------------------------------------------------------------------
(* Zero readings and the point award *)

\* the award of the claim, in tenths of a point: the overall penalty k/3
\* multiplies the base points before the modifier of the penalized efficiency,
\* the context bonus and the clamp, and the cap follows (in 1/30000 of a point
\* up to the final rounding)
ClaimedAward(c) ==
    LET data == IF c.user # NoUser
                THEN get_user_usage_last_year(c.history, c.user[1].id)
                ELSE get_utility_history(c.history, 50)
        raw == raw_efficiency(c.water_gallons, c.electricity_kwh, c.gas_cubic_m,
                              data, c.is_trained)
        overall == <<3 - ZeroCount(c), 3>>
        efficiency == <<raw[1] * overall[1], raw[2] * overall[2]>>
        statuses == assess_usage_with_context(c.water_gallons, c.electricity_kwh,
                                              c.gas_cubic_m)
        points == total_utility_points(statuses[1], statuses[2], statuses[3]) * overall[1]
                    * efficiency_modifier(efficiency) + 3 * context_bonus(c.user)
        clamped == Min(300000, Max(-150000, points))
        capped == IF PenaltyLeq(overall, 2) THEN Min(clamped, 30000)
                  ELSE IF PenaltyLeq(overall, 4) THEN Min(clamped, 90000)
                  ELSE IF PenaltyLeq(overall, 7) THEN Min(clamped, 180000)
                  ELSE clamped
    IN  RoundDiv(capped, 3000)

\* C19: for a reading with a zero the award is clamp(total_utility_points *
\* penalty * modifier(efficiency * penalty) + context_bonus) followed by the
\* cap: the penalty multiplies the points before the modifier, the bonus and
\* the clamp, not the result of calculate_ai_points afterwards
C19_PenaltyBeforeModifier ==
    (Assessed /\ ZeroCount(call) >= 1) => ret.ai_points = ClaimedAward(call)

\* the later reading is the earlier one with one positive value replaced by 0
ZeroReplaced(c1, c2) ==
    \/ /\ c1.water_gallons > 0 /\ c2.water_gallons = 0
       /\ c2.electricity_kwh = c1.electricity_kwh /\ c2.gas_cubic_m = c1.gas_cubic_m
    \/ /\ c1.electricity_kwh > 0 /\ c2.electricity_kwh = 0
       /\ c2.water_gallons = c1.water_gallons /\ c2.gas_cubic_m = c1.gas_cubic_m
    \/ /\ c1.gas_cubic_m > 0 /\ c2.gas_cubic_m = 0
       /\ c2.water_gallons = c1.water_gallons /\ c2.electricity_kwh = c1.electricity_kwh

\* C20: replacing one utility's positive value by 0, the other two values, the
\* user, the history and the trained flag being the same, never increases the
\* point award of assess_usage_with_ai
C20_ZeroNeverRewarded ==
    (AssessedTwice /\ SameContext(prev.call, call) /\ ZeroReplaced(prev.call, call))
        => ret.ai_points <= prev.ret.ai_points

----------------------------------------------------------------------------
(* The tier tables and the efficiency modifier *)

\* sub-score 100 up to the first breakpoint and 15 less for every breakpoint
\* the value exceeds
TierScore(value, breakpoints) ==
    100 - 15 * Cardinality({i \in DOMAIN breakpoints : value > breakpoints[i]})

ClaimedSubScores(c) ==
    TierScore(c.water_gallons, <<3000, 5000, 8000, 12000, 15000, 20000>>)
      + TierScore(c.electricity_kwh, <<300, 500, 800, 1200, 1600, 2000>>)
      + TierScore(c.gas_cubic_m, <<50, 80, 120, 180, 250, 350>>)

\* C21: with an untrained model or without history the efficiency score is,
\* before the validation penalty of (3 - zeros)/3, the mean of three
\* sub-scores 100/85/70/55/40/25/10 with inclusive upper breakpoints water
\* 3000/5000/8000/12000/15000/20000, electricity 300/500/800/1200/1600/2000,
\* gas 50/80/120/180/250/350
C21_TierMean ==
    (Assessed /\ (~call.is_trained \/ Len(call.history) = 0))
        => ret.efficiency_score
             = RoundDiv(ClaimedSubScores(call) * (3 - ZeroCount(call)) * 10, 9)

\* a trained model without history scored water at the breakpoint 12000,
\* electricity just above 1200 and gas at 350: (55 + 40 + 25) / 3 = 40
C21_Witness ==
    /\ Assessed /\ call.is_trained /\ Len(call.history) = 0
    /\ call.water_gallons = 12000
    /\ call.electricity_kwh = 1201
    /\ call.gas_cubic_m = 350
    /\ ret.efficiency_score = 400

\* the modifiers of the whole efficiency scale, and the steps of the function
ModifierTiers == {efficiency_modifier(<<e, 1>>) : e \in 0..100}
ModifierThresholds == <<20, 30, 40, 50, 60, 70, 80, 85, 90, 95>>
ModifierValues == <<30, 40, 50, 60, 70, 80, 85, 90, 95, 100, 110>>

ModifierBounds ==
    /\ ret.efficiency_modifier \in ModifierTiers
    /\ EffGeq(call.efficiency_score, 95) => ret.efficiency_modifier = 110
    /\ ~EffGeq(call.efficiency_score, 20) => ret.efficiency_modifier = 30
    /\ \A e \in 0..100 :
          /\ EffGeq(call.efficiency_score, e)
                => efficiency_modifier(<<e, 1>>) <= ret.efficiency_modifier
          /\ e * call.efficiency_score[2] >= call.efficiency_score[1]
                => efficiency_modifier(<<e, 1>>) >= ret.efficiency_modifier

\* C22 as stated: the modifier is a step function of efficiency_score with 10
\* tiers, 1.1 for scores >= 95 down to 0.30 for scores < 20, non-decreasing
C22_Original ==
    Scored => (ModifierBounds /\ Cardinality(ModifierTiers) = 10)

\* C22 amended: the modifier is a step function of efficiency_score with 11
\* tiers separated by the 10 thresholds 20/30/40/50/60/70/80/85/90/95, with
\* values 0.30/0.40/0.50/0.60/0.70/0.80/0.85/0.90/0.95/1.0/1.1, non-decreasing
C22_ModifierSteps ==
    Scored =>
        /\ ModifierBounds
        /\ Cardinality(ModifierTiers) = 11
        /\ ret.efficiency_modifier
              = ModifierValues[1 + Cardinality({i \in DOMAIN ModifierThresholds :
                                    EffGeq(call.efficiency_score, ModifierThresholds[i])})]

\* a score of 94 2/3, just below the bonus tier, was given the modifier 1.0
\* and three "Good" labels scored 6.90
C22_Witness ==
    /\ Scored
    /\ call.efficiency_score = <<284, 3>>
    /\ ret.efficiency_modifier = 100
    /\ call.water_status = "Good" /\ call.electricity_status = "Good"
    /\ call.gas_status = "Good"
    /\ call.user = NoUser
    /\ ret.points = 690

----------------------------------------------------------------------------
(* The daily limit and the points of saved entries *)

\* C23: a user never has more than 2 points-earning database entries of the
\* same day, also when two sessions of the user press Save to Database at the
\* same time; Save to History is never blocked by the limit and its entries
\* carry no points
C23_DailyLimit ==
    /\ entries_today(db_usage, CurrentUser[1].id) <= 2
    /\ \A s \in Sessions :
          sessions[s].button = "history" => sessions[s].error # "limit"
    /\ \A i \in 1..Len(db_usage) :
          db_usage[i].kind = "history" => db_usage[i].ai_points = 0

\* the points of the user's database entries of today, in tenths
RECURSIVE points_today(_, _)
points_today(db, user_id) ==
    IF db = <<>> THEN 0
    ELSE (IF Head(db).user_id = user_id /\ Head(db).kind = "database"
          THEN Head(db).ai_points ELSE 0) + points_today(Tail(db), user_id)

\* the entry of session s is in the database with these points
Stored(s, kind, points) ==
    \E i \in 1..Len(db_usage) :
        /\ db_usage[i].kind = kind
        /\ db_usage[i].user_id = CurrentUser[1].id
        /\ db_usage[i].water_gallons = sessions[s].water
        /\ db_usage[i].electricity_kwh = sessions[s].electricity
        /\ db_usage[i].gas_cubic_m = sessions[s].gas
        /\ db_usage[i].ai_points = points

\* C24: an entry saved by Save to Database carries min(10, ai_points - 2 *
\* number of utilities below their minimum) points, at most 10, and two
\* entries of a day at most 20 together; an entry saved by Save to History
\* carries no points and no penalty
C24_MinimumPenalty ==
    /\ \A s \in Sessions :
          /\ sessions[s].saved = "database"
                => /\ sessions[s].penalty_points = 2 * BelowMinimumCount(s)
                   /\ Stored(s, "database",
                             Min(100, sessions[s].ai_analysis.ai_points
                                        - 20 * BelowMinimumCount(s)))
                   /\ sessions[s].final_points <= 100
          /\ sessions[s].saved = "history"
                => /\ Stored(s, "history", 0)
                   /\ sessions[s].final_points = 0
    /\ entries_today(db_usage, CurrentUser[1].id) <= 2
          => points_today(db_usage, CurrentUser[1].id) <= 200

\* two entries were saved to the database today, one of them with all three
\* utilities below their minimum and 6 points off, and the same reading went
\* to the history without a penalty
C24_Witness ==
    /\ entries_today(db_usage, CurrentUser[1].id) = 2
    /\ \E s, t \in Sessions :
          /\ sessions[s].saved = "database"
          /\ BelowMinimumCount(s) = 3
          /\ sessions[s].final_points = sessions[s].ai_analysis.ai_points - 60
          /\ sessions[t].saved = "history"
          /\ BelowMinimumCount(t) = 3

----------------------------------------------------------------------------
(* The chatbot's summary *)

\* the topics get_ultra_smart_response identified in the conversation so far
IdentifiedTopics ==
    {_identify_topic(conversation_context.conversation_history[i].user_input) :
        i \in DOMAIN conversation_context.conversation_history} \ {None}

\* C25: the summary names every topic get_ultra_smart_response identified in
\* the conversation, not only the most recently identified one
C25_SummaryNamesAllTopics ==
    ret.fn = "get_conversation_summary" => IdentifiedTopics \subseteq ret.topics

----------------------------------------------------------------------------
(* The trained assessment *)

\* the records a call's assessment reads: the user's, or the latest 50
HistoryOf(c) ==
    IF c.user # NoUser THEN get_user_usage_last_year(c.history, c.user[1].id)
    ELSE get_utility_history(c.history, 50)

\* the mean of the records' efficiencies, in tenths of a percent
HistoryAverage(data) == RoundDiv(total_efficiency(data) * 10, 30 * Len(data))

TrainedOnHistory(c) == c.is_trained /\ Len(HistoryOf(c)) > 0

----------------------------------------------------------------------------
(* The range of the persisted points *)

DatabaseEntries == {i \in DOMAIN db_usage : db_usage[i].kind = "database"}

\* C27: every points value Save to Database persists lies between -5 and 10,
\* whatever the valid reading, the user's profile, the history and the trained
\* flag, with up to 6 penalty points subtracted from the clamped award
C27_PersistedRange ==
    /\ \A i \in DatabaseEntries :
          db_usage[i].ai_points >= -50 /\ db_usage[i].ai_points <= 100
    /\ (ret.fn = "save_to_database" /\ ret.saved)
          => /\ ret.penalty_points \in {0, 2, 4, 6}
             /\ ret.final_points = Min(100, ret.ai_points - 10 * ret.penalty_points)
             /\ db_usage[Len(db_usage)].ai_points = ret.final_points

C27_Witness ==
    /\ ret.fn = "save_to_database" /\ ret.saved
    /\ ret.penalty_points = 6
    /\ call.is_trained /\ Len(call.history) > 0
    /\ call.user[1].energy_features = Absent
    /\ ret.final_points < -40
    /\ db_usage[Len(db_usage)].ai_points = ret.final_points

----------------------------------------------------------------------------
(* The trained flag *)

\* the step is a call of train_models with data that is neither missing nor empty
TrainsOnData ==
    /\ call'.fn = "train_models"
    /\ call'.data_for_training # NoData
    /\ Len(call'.data_for_training[1]) > 0

\* C28: is_trained starts False, becomes True only in a call of train_models
\* with non-empty data, is never reset to False, and predict_usage returns
\* None exactly when is_trained is False
C28_TrainedMonotone ==
    /\ ~is_trained
    /\ [][/\ is_trained => is_trained'
          /\ (~is_trained /\ is_trained') => TrainsOnData]_vars
    /\ [](ret.fn = "predict_usage" => ((ret.result = NoPrediction) <=> ~call.is_trained))

C28_Witness ==
    /\ is_trained
    /\ model_performance.training_samples = 2
    /\ call.fn = "predict_usage" /\ call.is_trained
    /\ ret.result # NoPrediction
    /\ ret.result[1].water_prediction = 4400

\* the step is a call of train_models with missing or empty data
TrainsOnNothing ==
    /\ call'.fn = "train_models"
    /\ \/ call'.data_for_training = NoData
       \/ call'.data_for_training = <<NoData>>
    /\ <<call, ret, is_trained, model_performance>>' # <<call, ret, is_trained, model_performance>>

\* C29: train_models with empty or missing data returns (False, message) and
\* leaves is_trained and model_performance unchanged
C29_EmptyTrainingNoEffect ==
    [][TrainsOnNothing =>
          /\ ret'.fn = "train_models" /\ ~ret'.success
          /\ ret'.message = <<"No training data provided">>
          /\ is_trained' = is_trained
          /\ model_performance' = model_performance]_vars

C29_Witness ==
    /\ call.fn = "train_models" /\ call.data_for_training = NoData
    /\ call.is_trained
    /\ ~ret.success
    /\ is_trained
    /\ model_performance = [training_samples |-> 2, last_training |-> "Recently trained"]

====
